---- MODULE Spec2Model ----
(***************************************************************************)
(* Model of src/app.py (PDF417 scanner):                                   *)
(*   - smart_scan_logic / preprocess_image_candidates / try_decode         *)
(*     (the enhancement-search decoder),                                   *)
(*   - parse_aamva_data (the positional field parser),                     *)
(*   - calculate_pdf417_params (the parameter table).                      *)
(* Text is a sequence of one-character strings; the control characters are *)
(* written LF, CR, RS.  The Chinese labels of the source are written with  *)
(* their ASCII/English part.                                               *)
(***************************************************************************)
EXTENDS Integers, Sequences, FiniteSets, TLC

VARIABLES
    \* ---- smart_scan_logic ----
    oracle,           \* what cv2 / zxingcpp do on each (candidate, transform) image
    pc,               \* position in smart_scan_logic
    base_candidates,  \* list built by preprocess_image_candidates
    ci, ti,           \* indices of the two for loops
    step,             \* the progress counter of line 107
    found_result,     \* found_result of line 108
    attempts,         \* history: the (candidate, transform) pairs tried so far
    error,            \* the cv2 call whose exception left smart_scan_logic
    \* ---- parse_aamva_data ----
    fields_map,       \* the field code table, in insertion order
    data_str,         \* the decoded payload
    ppc,              \* position in parse_aamva_data
    main_data_content,
    field_positions,
    idx,              \* loop variable i of line 279
    parsed_data,      \* the dictionary; at "returned", the value returned
    \* ---- calculate_pdf417_params ----
    byte_len,
    kpc,              \* position in calculate_pdf417_params
    total_cw,
    cols,             \* loop variable of line 157
    data              \* rows appended so far

scanVars   == <<oracle, pc, base_candidates, ci, ti, step, found_result, attempts, error>>
parseVars  == <<fields_map, data_str, ppc, main_data_content, field_positions, idx, parsed_data>>
paramVars  == <<byte_len, kpc, total_cw, cols, data>>
vars       == <<scanVars, parseVars, paramVars>>

(***************************************************************************)
(* Generic helpers                                                         *)
(***************************************************************************)
Range(s) == {s[i] : i \in 1..Len(s)}

Min(S) == CHOOSE x \in S : \A y \in S : x <= y

\* all sequences over S of length 0..n
RECURSIVE SeqsUpTo(_, _)
SeqsUpTo(S, n) ==
    IF n = 0 THEN {<<>>}
    ELSE LET shorter == SeqsUpTo(S, n - 1)
         IN  shorter \cup {Append(s, x) : s \in {q \in shorter : Len(q) = n - 1}, x \in S}

(***************************************************************************)
(* 1. Enhancement-search decoder                                           *)
(***************************************************************************)
None == [format |-> "None", image |-> <<0, 0>>, index |-> 0]

\* preprocess_image_candidates: the labels of the candidates, in list order
CandidateNames == <<"original", "gray", "CLAHE", "sharpen", "binary(OTSU)">>

\* the transforms list of smart_scan_logic, in list order
transforms == <<"normal", "rotate90", "upscale1.5x">>

NumCandidates == Len(CandidateNames)
NumTransforms == Len(transforms)

Pairs == (1..NumCandidates) \X (1..NumTransforms)

\* The cv2 calls of preprocess_image_candidates that can raise, in call order.
\* cvtColor is called only for a 3-dimensional image (line 73).
EnhancementOps(is3D) ==
    (IF is3D THEN {"cvtColor"} ELSE {}) \cup {"CLAHE", "filter2D", "threshold"}

\* zxingcpp.BarcodeFormat values the detector may report
Formats == {"PDF417", "QRCode"}

\* Bound on how many (candidate, transform) images behave other than
\* "transform works, detector reports nothing".
MaxMarked == 2

\* The detection lists read_barcodes may return for a marked image.
DetectionLists ==
    { <<"QRCode">>, <<"PDF417">>, <<"QRCode", "PDF417">>,
      <<"PDF417", "QRCode">>, <<"PDF417", "PDF417">> }

Quiet == [raises |-> "none", results |-> <<>>]

\* What can happen on one image: the transform raises, read_barcodes raises,
\* or read_barcodes returns a list of results.
MarkedOutcomes(p) ==
    (IF p[2] = 1 THEN {} ELSE {[raises |-> "transform", results |-> <<>>]})
    \cup {[raises |-> "detect", results |-> <<>>]}
    \cup {[raises |-> "none", results |-> l] : l \in DetectionLists}

AllMarkedOutcomes == UNION {MarkedOutcomes(q) : q \in Pairs}

\* oracle is Quiet outside the marked set S and f inside it
IsOracle(o, S, f) ==
    /\ \A q \in S : f[q] \in MarkedOutcomes(q)
    /\ o = [p \in Pairs |-> IF p \in S THEN f[p] ELSE Quiet]

\* zxingcpp.read_barcodes(image): the results, each with its format tag
read_barcodes(image) ==
    [i \in 1..Len(oracle[image].results) |->
        [format |-> oracle[image].results[i], image |-> image, index |-> i]]

TryDecodeFirstAny(image) ==
    IF oracle[image].raises = "detect" THEN <<FALSE, None>>
    ELSE LET results == read_barcodes(image)
         IN  IF Len(results) > 0 THEN <<TRUE, results[1]>> ELSE <<FALSE, None>>

\* try_decode(image): (True, first PDF417 result) or (False, None)
try_decode(image) ==
    IF oracle[image].raises = "detect" THEN <<FALSE, None>>
    ELSE LET results == read_barcodes(image)
             hits == {i \in 1..Len(results) : results[i].format = "PDF417"}
         IN  IF hits # {} THEN <<TRUE, results[Min(hits)]>> ELSE <<FALSE, None>>

\* Position of the loops after the body for (c, t) ended without a break:
\* the next transform, else `if found_result: break` and the next candidate,
\* else the loops are over.
NextIteration(c, t, found) ==
    IF t < NumTransforms THEN [pc |-> "scan", ci |-> c, ti |-> t + 1]
    ELSE IF found # None \/ c = NumCandidates THEN [pc |-> "exit", ci |-> c, ti |-> t]
    ELSE [pc |-> "scan", ci |-> c + 1, ti |-> 1]

OnExceptionBreak(c, t) == NextIteration(c, NumTransforms, None)

\* except Exception: continue  (lines 131-132)
OnException(c, t) == NextIteration(c, t, None)

OnSuccessNoBreak(c, t, result) == NextIteration(c, t, result)

\* found_result = result ... break; if found_result: break  (lines 126-134)
OnSuccess(c, t, result) ==
    IF result # None THEN [pc |-> "exit", ci |-> c, ti |-> t]
    ELSE NextIteration(c, NumTransforms, result)

InitScan ==
    /\ \E S \in {T \in SUBSET Pairs : Cardinality(T) <= MaxMarked} :
          \E f \in [S -> AllMarkedOutcomes] : IsOracle(oracle, S, f)
    /\ pc = "start"
    /\ base_candidates = <<>>
    /\ ci = 0 /\ ti = 0 /\ step = 0
    /\ found_result = None
    /\ attempts = <<>>
    /\ error = "none"
    \* the other two functions are not running
    /\ fields_map = <<>> /\ data_str = <<>> /\ ppc = "idle"
    /\ main_data_content = <<>> /\ field_positions = <<>> /\ idx = 0
    /\ parsed_data = <<>>
    /\ byte_len = 0 /\ kpc = "idle" /\ total_cw = 0 /\ cols = 0 /\ data = <<>>

\* line 103, preprocess_image_candidates returns its five candidates
Preprocess ==
    /\ pc = "start"
    /\ base_candidates' = CandidateNames
    /\ pc' = "scan" /\ ci' = 1 /\ ti' = 1
    /\ UNCHANGED <<oracle, step, found_result, attempts, error>>
    /\ UNCHANGED <<parseVars, paramVars>>

\* line 103, a cv2 call of preprocess_image_candidates raises: nothing in
\* preprocess_image_candidates or smart_scan_logic catches it
PreprocessRaises ==
    /\ pc = "start"
    /\ \E is3D \in BOOLEAN : \E op \in EnhancementOps(is3D) : error' = op
    /\ pc' = "raised"
    /\ UNCHANGED <<oracle, base_candidates, ci, ti, step, found_result, attempts>>
    /\ UNCHANGED <<parseVars, paramVars>>

\* lines 118-132, trans_func raises
AttemptTransformRaises ==
    /\ pc = "scan"
    /\ oracle[<<ci, ti>>].raises = "transform"
    /\ step' = step + 1
    /\ attempts' = Append(attempts, <<ci, ti>>)
    /\ LET n == OnException(ci, ti)
       IN  pc' = n.pc /\ ci' = n.ci /\ ti' = n.ti
    /\ UNCHANGED <<oracle, base_candidates, found_result, error>>
    /\ UNCHANGED <<parseVars, paramVars>>

\* lines 118-130, try_decode reports no PDF417
AttemptNoPdf417 ==
    /\ pc = "scan"
    /\ oracle[<<ci, ti>>].raises # "transform"
    /\ ~try_decode(<<ci, ti>>)[1]
    /\ step' = step + 1
    /\ attempts' = Append(attempts, <<ci, ti>>)
    /\ LET n == NextIteration(ci, ti, found_result)
       IN  pc' = n.pc /\ ci' = n.ci /\ ti' = n.ti
    /\ UNCHANGED <<oracle, base_candidates, found_result, error>>
    /\ UNCHANGED <<parseVars, paramVars>>

\* lines 118-134, try_decode succeeds
AttemptSuccess ==
    /\ pc = "scan"
    /\ oracle[<<ci, ti>>].raises # "transform"
    /\ try_decode(<<ci, ti>>)[1]
    /\ step' = step + 1
    /\ attempts' = Append(attempts, <<ci, ti>>)
    /\ found_result' = try_decode(<<ci, ti>>)[2]
    /\ LET n == OnSuccess(ci, ti, found_result')
       IN  pc' = n.pc /\ ci' = n.ci /\ ti' = n.ti
    /\ UNCHANGED <<oracle, base_candidates, error>>
    /\ UNCHANGED <<parseVars, paramVars>>

\* lines 136-139
Return ==
    /\ pc = "exit"
    /\ pc' = "returned"
    /\ UNCHANGED <<oracle, base_candidates, ci, ti, step, found_result, attempts, error>>
    /\ UNCHANGED <<parseVars, paramVars>>

(***************************************************************************)
(* 2. Positional field parser                                              *)
(***************************************************************************)
LF == "LF"
CR == "CR"
RS == "RS"

\* characters str.strip() removes (str.isspace)
Whitespace == {" ", "TAB", LF, CR, "VT", "FF", "FS", "GS", RS, "US", "NEL", "NBSP"}

\* fields_map (lines 198-234), in insertion order; desc is the English part
\* of the description
FieldsMap ==
    << 
       [code |-> <<"D", "C", "S">>, desc |-> "Last Name"],
       [code |-> <<"D", "A", "C">>, desc |-> "First Name"],
       [code |-> <<"D", "A", "D">>, desc |-> "Middle Name"],
       [code |-> <<"D", "B", "B">>, desc |-> "DOB"],
       [code |-> <<"D", "B", "A">>, desc |-> "Expiry Date"],
       [code |-> <<"D", "B", "D">>, desc |-> "Issue Date"],
       [code |-> <<"D", "A", "Q">>, desc |-> "License No."],
       [code |-> <<"D", "C", "F">>, desc |-> "DD"],
       [code |-> <<"D", "C", "K">>, desc |-> "ICN"],
       [code |-> <<"D", "C", "G">>, desc |-> "Nationality"],
       [code |-> <<"D", "B", "C">>, desc |-> "Gender Code"],
       [code |-> <<"D", "A", "U">>, desc |-> "Height"],
       [code |-> <<"D", "A", "W">>, desc |-> "Weight"],
       [code |-> <<"D", "A", "Y">>, desc |-> "Eye Color"],
       [code |-> <<"D", "A", "Z">>, desc |-> "Hair Color"],
       [code |-> <<"D", "A", "G">>, desc |-> "Street"],
       [code |-> <<"D", "A", "I">>, desc |-> "City"],
       [code |-> <<"D", "A", "J">>, desc |-> "State"],
       [code |-> <<"D", "A", "K">>, desc |-> "ZIP"],
       [code |-> <<"D", "C", "A">>, desc |-> "CLASS"],
       [code |-> <<"D", "C", "B">>, desc |-> "REST"],
       [code |-> <<"D", "C", "D">>, desc |-> "END"],
       [code |-> <<"D", "D", "B">>, desc |-> "REV"],
       [code |-> <<"D", "D", "L">>, desc |-> "Veteran"],
       [code |-> <<"D", "D", "K">>, desc |-> "Organ Donor"],
       [code |-> <<"Z", "F", "J">>, desc |-> "Audit info"],
       [code |-> <<"Z", "F", "C">>, desc |-> "SAFE DRIVER"]
    >>

StructuralError == <<[key |-> "Error", value |-> "main DL/ID segment not found (Z marker missing or data incomplete)"]>>
ExtractionEmptyError == <<[key |-> "Error", value |-> "main segment found, no valid AAMVA field code recognised"]>>
NoFieldExtractedError == <<[key |-> "Error", value |-> "main segment found, no valid field extracted"]>>

\* s[a:b] of Python for 0 <= a, 0 <= b
Slice(s, a, b) ==
    LET e == IF b > Len(s) THEN Len(s) ELSE b
    IN  IF a >= e THEN <<>> ELSE SubSeq(s, a + 1, e)

\* s.find(sub, from): 0-based index of the first occurrence at or after from, or -1
RECURSIVE Find(_, _, _)
Find(s, sub, from) ==
    IF from + Len(sub) > Len(s) THEN -1
    ELSE IF SubSeq(s, from + 1, from + Len(sub)) = sub THEN from
    ELSE Find(s, sub, from + 1)

\* s.split(sep) for a one-character separator
RECURSIVE Split(_, _)
Split(s, sep) ==
    LET p == Find(s, <<sep>>, 0)
    IN  IF p = -1 THEN <<s>>
        ELSE <<Slice(s, 0, p)>> \o Split(Slice(s, p + 1, Len(s)), sep)

\* s.replace(c, '')
Remove(s, c) == SelectSeq(s, LAMBDA x : x # c)

\* s.strip()
RECURSIVE Strip(_)
Strip(s) ==
    IF s = <<>> THEN s
    ELSE IF s[1] \in Whitespace THEN Strip(Tail(s))
    ELSE IF s[Len(s)] \in Whitespace THEN Strip(SubSeq(s, 1, Len(s) - 1))
    ELSE s

\* list.sort(key=...) / sorted(key=...): stable insertion sort of entries
\* [k |-> integer key, v |-> element]
RECURSIVE InsertStable(_, _)
InsertStable(sorted, x) ==
    IF sorted = <<>> THEN <<x>>
    ELSE IF sorted[Len(sorted)].k <= x.k THEN Append(sorted, x)
    ELSE Append(InsertStable(SubSeq(sorted, 1, Len(sorted) - 1), x), sorted[Len(sorted)])

RECURSIVE SortStable(_)
SortStable(s) ==
    IF s = <<>> THEN <<>>
    ELSE InsertStable(SortStable(SubSeq(s, 1, Len(s) - 1)), s[Len(s)])

\* fields_map.keys()
Keys(map) == [k \in 1..Len(map) |-> map[k].code]

\* sorted(fields_map.keys(), key=len, reverse=True)  (line 260)
sorted_codes(map) ==
    LET keyed == SortStable([k \in 1..Len(map) |-> [k |-> 0 - Len(map[k].code), v |-> map[k].code]])
    IN  [k \in 1..Len(keyed) |-> keyed[k].v]

\* fields_map.get(code, code)  (line 298)
Description(map, code) ==
    LET hits == {k \in 1..Len(map) : map[k].code = code}
    IN  IF hits = {} THEN "?" ELSE map[Min(hits)].desc

\* lines 242-251: the first segment holding DL or ID whose first Z is
\* followed by at least one character gives the region; None otherwise
RECURSIVE FindMain(_)
FindMainNoLengthGuard(segments) ==
    IF segments = <<>> THEN [found |-> FALSE, content |-> <<>>]
    ELSE LET segment == segments[1]
             dl_start_index == Find(segment, <<"D", "L">>, 0)
             id_start_index == Find(segment, <<"I", "D">>, 0)
             z_pos == Find(segment, <<"Z">>, 0)
         IN  IF (dl_start_index # -1 \/ id_start_index # -1) /\ z_pos # -1
             THEN [found |-> TRUE, content |-> Slice(segment, z_pos + 1, Len(segment))]
             ELSE FindMain(Tail(segments))

FindMain(segments) ==
    IF segments = <<>> THEN [found |-> FALSE, content |-> <<>>]
    ELSE LET segment == segments[1]
             dl_start_index == Find(segment, <<"D", "L">>, 0)
             id_start_index == Find(segment, <<"I", "D">>, 0)
             z_pos == Find(segment, <<"Z">>, 0)
         IN  IF (dl_start_index # -1 \/ id_start_index # -1)
                /\ z_pos # -1 /\ z_pos + 1 < Len(segment)
             THEN [found |-> TRUE, content |-> Slice(segment, z_pos + 1, Len(segment))]
             ELSE FindMain(Tail(segments))

\* lines 263-270: every occurrence of one code, by repeated find
RECURSIVE ScanCode(_, _, _)
ScanCode(content, code, start) ==
    LET p == Find(content, code, start + 1)
    IN  IF p = -1 THEN <<>>
        ELSE <<[code |-> code, start_pos |-> p]>> \o ScanCode(content, code, p)

\* lines 262-270: the occurrences of all codes, code by code
RECURSIVE ScanAll(_, _)
ScanAll(content, codes) ==
    IF codes = <<>> THEN <<>>
    ELSE ScanCode(content, codes[1], -1) \o ScanAll(content, Tail(codes))

\* line 276
SortByStart(positions) ==
    LET keyed == SortStable([k \in 1..Len(positions) |->
                               [k |-> positions[k].start_pos, v |-> positions[k]]])
    IN  [k \in 1..Len(keyed) |-> keyed[k].v]

ValueToRegionEnd(content, positions, k) ==
    Strip(Remove(Remove(Slice(content, positions[k].start_pos + Len(positions[k].code),
                              Len(content)), LF), CR))

\* lines 280-296: the value of the k-th occurrence (k from 1)
Value(content, positions, k) ==
    LET current == positions[k]
        code_len == Len(current.code)
        value_start == current.start_pos + code_len
        value_end == IF k + 1 <= Len(positions) THEN positions[k + 1].start_pos
                     ELSE Len(content)
    IN  Strip(Remove(Remove(Slice(content, value_start, value_end), LF), CR))

DictSetKeepFirst(d, key, value) ==
    IF \E k \in 1..Len(d) : d[k].key = key THEN d
    ELSE Append(d, [key |-> key, value |-> value])

\* parsed_data[description] = value on a dict kept as a list of entries
DictSet(d, key, value) ==
    IF \E k \in 1..Len(d) : d[k].key = key
    THEN [k \in 1..Len(d) |-> IF d[k].key = key THEN [key |-> key, value |-> value] ELSE d[k]]
    ELSE Append(d, [key |-> key, value |-> value])

\* ---- inputs of the parser ----
\* Bound on the number of tokens of a field-data region.
MaxTokens == 4
\* Bound on the number of tokens after each of the other headers.
MaxHeadTokens == 2

BodyTokens ==
    { <<"D", "A", "Q">>, <<"D", "C", "S">>, <<"D", "A", "D">>, <<"A", "D">>,
      <<"1">>, <<" ">>, <<CR, LF>> }

RECURSIVE Concat(_)
Concat(ss) == IF ss = <<>> THEN <<>> ELSE ss[1] \o Concat(Tail(ss))

Bodies(n) == {Concat(ts) : ts \in SeqsUpTo(BodyTokens, n)}

Headers ==
    { <<>>, <<"D", "L">>, <<"Z">>, <<"I", "D", "Z">>, <<"Z", "I", "D">>,
      <<"D", "L", "Z", RS, "I", "D", "Z">>, <<"X", "Z", RS, "D", "L", "Z">>,
      <<"D", "L", RS, "Z">>, <<"D", "L", "Z", RS>> }

\* the two regions of the specification's examples, after a "DL" + Z header
SpecExamples ==
    { <<"D", "L", "Z", "D", "A", "Q", "D", "C", "S", "T", "E", "S", "T">>,
      <<"D", "L", "Z", "D", "A", "Q", "1", "2", "3", LF, "D", "C", "S", "T", "E", "S", "T", LF>> }

Payloads ==
    {<<"D", "L", "Z">> \o b : b \in Bodies(MaxTokens)}
    \cup {h \o b : h \in Headers, b \in Bodies(MaxHeadTokens)}
    \cup SpecExamples

\* a table with a four-character code that has the code DCS as a prefix
ExtendedFieldsMap ==
    Append(FieldsMap, [code |-> <<"D", "C", "S", "A">>, desc |-> "Four-character code"])

InitParseWith(map) ==
    /\ fields_map = map
    /\ data_str \in Payloads
    /\ ppc = "start"
    /\ main_data_content = <<>>
    /\ field_positions = <<>>
    /\ idx = 0
    /\ parsed_data = <<>>
    \* the other two functions are not running
    /\ oracle = [p \in Pairs |-> Quiet] /\ pc = "idle" /\ base_candidates = <<>>
    /\ ci = 0 /\ ti = 0 /\ step = 0 /\ found_result = None /\ attempts = <<>>
    /\ error = "none"
    /\ byte_len = 0 /\ kpc = "idle" /\ total_cw = 0 /\ cols = 0 /\ data = <<>>

\* lines 239-251, a main segment is found
FindMainSegment ==
    /\ ppc = "start"
    /\ LET m == FindMain(Split(data_str, RS))
       IN  /\ m.found /\ m.content # <<>>
           /\ main_data_content' = m.content
    /\ ppc' = "collect"
    /\ UNCHANGED <<fields_map, data_str, field_positions, idx, parsed_data>>
    /\ UNCHANGED <<scanVars, paramVars>>

\* lines 239-254, `if not main_data_content`
ReturnStructuralError ==
    /\ ppc = "start"
    /\ LET m == FindMain(Split(data_str, RS))
       IN  ~m.found \/ m.content = <<>>
    /\ parsed_data' = StructuralError
    /\ ppc' = "returned"
    /\ UNCHANGED <<fields_map, data_str, main_data_content, field_positions, idx>>
    /\ UNCHANGED <<scanVars, paramVars>>

\* lines 258-270
CollectPositions ==
    /\ ppc = "collect"
    /\ LET fp == ScanAll(main_data_content, sorted_codes(fields_map))
       IN  /\ fp # <<>>
           /\ field_positions' = fp
    /\ ppc' = "sort"
    /\ UNCHANGED <<fields_map, data_str, main_data_content, idx, parsed_data>>
    /\ UNCHANGED <<scanVars, paramVars>>

\* lines 258-273, `if not field_positions`
ReturnExtractionError ==
    /\ ppc = "collect"
    /\ ScanAll(main_data_content, sorted_codes(fields_map)) = <<>>
    /\ parsed_data' = ExtractionEmptyError
    /\ ppc' = "returned"
    /\ UNCHANGED <<fields_map, data_str, main_data_content, field_positions, idx>>
    /\ UNCHANGED <<scanVars, paramVars>>

\* line 276
SortPositions ==
    /\ ppc = "sort"
    /\ field_positions' = SortByStart(field_positions)
    /\ ppc' = "extract"
    /\ idx' = 0
    /\ UNCHANGED <<fields_map, data_str, main_data_content, parsed_data>>
    /\ UNCHANGED <<scanVars, paramVars>>

\* lines 279-299, one iteration of the extraction loop
ExtractValue ==
    /\ ppc = "extract"
    /\ idx < Len(field_positions)
    /\ parsed_data' = DictSet(parsed_data,
                              Description(fields_map, field_positions[idx + 1].code),
                              Value(main_data_content, field_positions, idx + 1))
    /\ idx' = idx + 1
    /\ UNCHANGED <<fields_map, data_str, ppc, main_data_content, field_positions>>
    /\ UNCHANGED <<scanVars, paramVars>>

\* lines 301-304
ReturnParsed ==
    /\ ppc = "extract"
    /\ idx = Len(field_positions)
    /\ parsed_data' = IF parsed_data = <<>> THEN NoFieldExtractedError ELSE parsed_data
    /\ ppc' = "returned"
    /\ UNCHANGED <<fields_map, data_str, main_data_content, field_positions, idx>>
    /\ UNCHANGED <<scanVars, paramVars>>

(***************************************************************************)
(* 3. PDF417 parameter table                                               *)
(***************************************************************************)
\* Bounds on the byte lengths tried: -NegLen .. MaxByteLen
NegLen == 2
MaxByteLen == 3200

ecc_cw == 64
FirstCols == 9
LastCols == 20
MinRows == 3
MaxRows == 90

\* math.ceil(byte_len / 1.8): byte_len / 1.8 = 10 * byte_len / 18; for the
\* lengths modelled the float quotient is an integer exactly when the real
\* one is, so the ceiling is that of the exact quotient
estimated_data_cw(len) == (10 * len + 17) \div 18

RowsFloor(total, c) == total \div c

\* math.ceil(total_cw / cols)
Rows(total, c) == (total + c - 1) \div c

ColNoteWithCommonWide(c) ==
    IF c = 17 THEN <<"AAMVA standard">>
    ELSE IF 16 <= c /\ c <= 18 THEN <<"common wide">>
    ELSE IF 11 <= c /\ c <= 13 THEN <<"narrow (NY/CA style)">>
    ELSE <<>>

\* lines 167-169
ColNote(c) ==
    IF c = 17 THEN <<"AAMVA standard">>
    ELSE IF 11 <= c /\ c <= 13 THEN <<"narrow (NY/CA style)">>
    ELSE <<>>

\* lines 171-173 on ratio = width_units / height_units; the comparisons of
\* the quotient with 3.0, 5.0, 6.0 and 2.5 are made on the integers
RatioNote(width_units, height_units) ==
    IF 3 * height_units <= width_units /\ width_units <= 5 * height_units
    THEN <<"| perfect ratio">>
    ELSE IF width_units > 6 * height_units THEN <<"| elongated barcode">>
    ELSE IF 2 * width_units < 5 * height_units THEN <<"| square barcode">>
    ELSE <<>>

\* lines 163-180: the row appended for a column count; note is the list of
\* the parts concatenated into the note string
Row(c, r) ==
    LET width_units == (c + 4) * 17
        height_units == r * 3
    IN  [cols |-> c, rows |-> r, width_units |-> width_units,
         height_units |-> height_units,
         note |-> ColNote(c) \o RatioNote(width_units, height_units)]

InitParams ==
    /\ byte_len \in (0 - NegLen)..MaxByteLen
    /\ kpc = "start"
    /\ total_cw = 0
    /\ cols = 0
    /\ data = <<>>
    \* the other two functions are not running
    /\ oracle = [p \in Pairs |-> Quiet] /\ pc = "idle" /\ base_candidates = <<>>
    /\ ci = 0 /\ ti = 0 /\ step = 0 /\ found_result = None /\ attempts = <<>>
    /\ error = "none"
    /\ fields_map = <<>> /\ data_str = <<>> /\ ppc = "idle"
    /\ main_data_content = <<>> /\ field_positions = <<>> /\ idx = 0
    /\ parsed_data = <<>>

\* lines 147-148
ReturnEmptyTable ==
    /\ kpc = "start"
    /\ byte_len <= 0
    /\ kpc' = "returned"
    /\ UNCHANGED <<byte_len, total_cw, cols, data>>
    /\ UNCHANGED <<scanVars, parseVars>>

\* lines 150-155
ComputeTotal ==
    /\ kpc = "start"
    /\ byte_len > 0
    /\ total_cw' = estimated_data_cw(byte_len) + ecc_cw
    /\ cols' = FirstCols
    /\ kpc' = "loop"
    /\ UNCHANGED <<byte_len, data>>
    /\ UNCHANGED <<scanVars, parseVars>>

\* lines 157-161, `continue`
SkipCols ==
    /\ kpc = "loop"
    /\ cols <= LastCols
    /\ LET rows == Rows(total_cw, cols) IN rows < MinRows \/ rows > MaxRows
    /\ cols' = cols + 1
    /\ UNCHANGED <<byte_len, kpc, total_cw, data>>
    /\ UNCHANGED <<scanVars, parseVars>>

\* lines 157-180
AppendRow ==
    /\ kpc = "loop"
    /\ cols <= LastCols
    /\ LET rows == Rows(total_cw, cols)
       IN  /\ ~(rows < MinRows \/ rows > MaxRows)
           /\ data' = Append(data, Row(cols, rows))
    /\ cols' = cols + 1
    /\ UNCHANGED <<byte_len, kpc, total_cw>>
    /\ UNCHANGED <<scanVars, parseVars>>

\* line 182
ReturnTable ==
    /\ kpc = "loop"
    /\ cols > LastCols
    /\ kpc' = "returned"
    /\ UNCHANGED <<byte_len, total_cw, cols, data>>
    /\ UNCHANGED <<scanVars, parseVars>>

NextScan ==
    \/ Preprocess
    \/ PreprocessRaises
    \/ AttemptTransformRaises
    \/ AttemptNoPdf417
    \/ AttemptSuccess
    \/ Return

SpecScan == InitScan /\ [][NextScan]_vars

NextParse ==
    \/ FindMainSegment
    \/ ReturnStructuralError
    \/ CollectPositions
    \/ ReturnExtractionError
    \/ SortPositions
    \/ ExtractValue
    \/ ReturnParsed

InitParse == InitParseWith(FieldsMap)

InitParseTable == InitParseWith(ExtendedFieldsMap)

SpecParse == InitParse /\ [][NextParse]_vars

SpecParseTable == InitParseTable /\ [][NextParse]_vars

NextParams ==
    \/ ReturnEmptyTable
    \/ ComputeTotal
    \/ SkipCols
    \/ AppendRow
    \/ ReturnTable

SpecParams == InitParams /\ [][NextParams]_vars

(***************************************************************************)
(* Properties of the decoder                                               *)
(***************************************************************************)
\* the nested order of the claim: outer candidate, inner transform
PairOrder ==
    [k \in 1..15 |-> <<((k - 1) \div 3) + 1, ((k - 1) % 3) + 1>>]

HasPdf417(p) == \E i \in 1..Len(oracle[p].results) : oracle[p].results[i] = "PDF417"
Raises(p)    == oracle[p].raises # "none"
Succeeds(p)  == ~Raises(p) /\ HasPdf417(p)
OnlyOther(p) == ~Raises(p) /\ oracle[p].results # <<>> /\ ~HasPdf417(p)

\* position of the loops right after pair number k ended without success
AfterPair(k) ==
    IF k < 15 THEN pc = "scan" /\ <<ci, ti>> = PairOrder[k + 1]
    ELSE pc \in {"exit", "returned"} /\ found_result = None

\* C1: the pairs are attempted in nested order (original, gray, CLAHE,
\* sharpen, OTSU binary; inside each: identity, rotate 90, upscale 1.5x), no
\* pair is attempted after a successful one, and the result returned is that
\* of the first pair in this order that yields a PDF417: when an earlier pair
\* a and a later pair b would both succeed, the result is a's.
C1_FirstSuccessInOrder ==
    /\ pc \in {"scan", "exit", "returned"} =>
          /\ base_candidates = <<"original", "gray", "CLAHE", "sharpen", "binary(OTSU)">>
          /\ transforms = <<"normal", "rotate90", "upscale1.5x">>
    /\ \A k \in 1..Len(attempts) : attempts[k] = PairOrder[k]
    /\ \A k \in 1..(Len(attempts) - 1) : ~Succeeds(attempts[k])
    /\ pc = "returned" =>
          \A a \in 1..15 :
             (Succeeds(PairOrder[a]) /\ \A e \in 1..(a - 1) : ~Succeeds(PairOrder[e]))
                => /\ found_result.image = PairOrder[a]
                   /\ Len(attempts) = a

C1_Witness ==
    /\ pc = "returned"
    /\ \E a, b \in 1..15 :
          /\ a < b /\ Succeeds(PairOrder[a]) /\ Succeeds(PairOrder[b])
          /\ found_result.image = PairOrder[a]

\* C2: no result with a format other than PDF417 is ever returned; a list
\* holding only other symbologies leaves the search exactly where an empty
\* list leaves it; the PDF417 entry is taken also when another entry precedes
\* it; and with no PDF417 anywhere the result is None.
C2_OnlyPdf417Returned ==
    /\ found_result # None =>
          /\ found_result.format = "PDF417"
          /\ oracle[found_result.image].results[found_result.index] = "PDF417"
          /\ \A i \in 1..(found_result.index - 1) :
                oracle[found_result.image].results[i] # "PDF417"
    /\ (Len(attempts) > 0 /\ OnlyOther(attempts[Len(attempts)])) =>
          AfterPair(Len(attempts))
    /\ (pc = "returned" /\ \A p \in Pairs : ~Succeeds(p)) => found_result = None
    /\ (pc = "returned" /\ \E p \in Pairs : ~Raises(p) /\ HasPdf417(p)) =>
          found_result # None

C2_Witness ==
    /\ pc = "returned"
    /\ found_result # None /\ found_result.index = 2
    /\ \E k \in 1..(Len(attempts) - 1) : OnlyOther(attempts[k])

\* C3: an exception of the transform or of the detector on one pair skips
\* that pair only: the next pair in order (also a remaining variant of the
\* same candidate) is the next one attempted, no exception leaves the pair
\* loop, and a later successful pair is still returned.
C3_ErrorSkipsOnePair ==
    /\ pc = "raised" => attempts = <<>>
    /\ \A k \in 1..Len(attempts) :
          Raises(attempts[k]) =>
             IF k < Len(attempts) THEN attempts[k + 1] = PairOrder[k + 1]
             ELSE AfterPair(k)
    /\ pc = "returned" =>
          \A b \in 1..15 : Succeeds(PairOrder[b]) => found_result.format = "PDF417"

C3_Witness ==
    /\ pc = "returned"
    /\ \E k \in 1..(Len(attempts) - 1) :
          /\ oracle[attempts[k]].raises = "transform"
          /\ attempts[k][2] < NumTransforms
          /\ found_result.image = PairOrder[k + 1]

\* C4: a failing enhancement operator is absorbed: smart_scan_logic never
\* ends with the exception, it ends with a result or None.
C4_EnhancementFailureAbsorbed ==
    pc # "raised"

(***************************************************************************)
(* Properties of the parser                                                *)
(***************************************************************************)
\* the record-separator-delimited segments of data_str, by their first index
RSPositions   == {p \in 1..Len(data_str) : data_str[p] = RS}
SegmentStarts == {1} \cup {p + 1 : p \in RSPositions}
SegmentEnd(a) == Min({p - 1 : p \in {q \in RSPositions : q >= a}} \cup {Len(data_str)})

OccursIn(a, e, sub) ==
    \E p \in a..(e - Len(sub) + 1) : SubSeq(data_str, p, p + Len(sub) - 1) = sub

HasMarker(a) ==
    OccursIn(a, SegmentEnd(a), <<"D", "L">>) \/ OccursIn(a, SegmentEnd(a), <<"I", "D">>)
HasZ(a)   == OccursIn(a, SegmentEnd(a), <<"Z">>)
FirstZ(a) == Min({p \in a..SegmentEnd(a) : data_str[p] = "Z"})

\* segments holding DL or ID whose first Z is followed by at least one character
UsableStarts == {a \in SegmentStarts : HasMarker(a) /\ HasZ(a) /\ FirstZ(a) < SegmentEnd(a)}

ExpectedRegion ==
    LET a == Min(UsableStarts) IN SubSeq(data_str, FirstZ(a) + 1, SegmentEnd(a))

Codes == {fields_map[k].code : k \in 1..Len(fields_map)}

\* every place a known code occurs in region r, as <<code, 0-based position>>
Occurrences(r) ==
    {<<c, p>> \in Codes \X (0..Len(r)) :
        p + Len(c) <= Len(r) /\ SubSeq(r, p + 1, p + Len(c)) = c}

\* text of r from just after the code at p up to the next occurrence (or the
\* end of r), CR/LF removed, surrounding whitespace removed
ExpectedValue(r, c, p) ==
    LET lo == p + Len(c)
        hi == Min({o[2] : o \in {x \in Occurrences(r) : x[2] > p}} \cup {Len(r)})
        raw == IF lo >= hi THEN <<>>
               ELSE SelectSeq(SubSeq(r, lo + 1, hi), LAMBDA x : x \notin {LF, CR})
        inner == {j \in 1..Len(raw) : raw[j] \notin Whitespace}
    IN  IF inner = {} THEN <<>>
        ELSE SubSeq(raw, Min(inner), CHOOSE j \in inner : \A m \in inner : m <= j)

EntryOf(code) ==
    LET d == Description(fields_map, code)
    IN  {parsed_data[k].value : k \in {j \in 1..Len(parsed_data) : parsed_data[j].key = d}}

IsError == Len(parsed_data) = 1 /\ parsed_data[1].key = "Error"

ExampleAdjacent == <<"D", "A", "Q", "D", "C", "S", "T", "E", "S", "T">>
ExampleRoundTrip ==
    <<"D", "A", "Q", "1", "2", "3", LF, "D", "C", "S", "T", "E", "S", "T", LF>>

\* C5: once the region is found, every occurrence of a known code in it is
\* a boundary (field_positions lists exactly the occurrences, by position);
\* the value written for an occurrence is the text between the end of its
\* code and the next occurrence (or the region's end) without CR/LF and
\* surrounding whitespace; every code that occurs has an entry, also when
\* the value is empty; and the two examples give exactly the stated records.
C5_ValuesSlicedBetweenOccurrences ==
    /\ ppc \in {"extract", "returned"} /\ ~IsError =>
          /\ {<<field_positions[k].code, field_positions[k].start_pos>> :
                 k \in 1..Len(field_positions)} = Occurrences(main_data_content)
          /\ Len(field_positions) = Cardinality(Occurrences(main_data_content))
          /\ \A k \in 1..(Len(field_positions) - 1) :
                field_positions[k].start_pos < field_positions[k + 1].start_pos
    /\ ppc = "extract" /\ idx >= 1 =>
          EntryOf(field_positions[idx].code) =
             {ExpectedValue(main_data_content, field_positions[idx].code,
                            field_positions[idx].start_pos)}
    /\ ppc = "returned" /\ ~IsError =>
          \A o \in Occurrences(main_data_content) : EntryOf(o[1]) # {}
    /\ ppc = "returned" /\ main_data_content = ExampleAdjacent =>
          parsed_data = << [key |-> "License No.", value |-> <<>>],
                           [key |-> "Last Name", value |-> <<"T", "E", "S", "T">>] >>
    /\ ppc = "returned" /\ main_data_content = ExampleRoundTrip =>
          parsed_data = << [key |-> "License No.", value |-> <<"1", "2", "3">>],
                           [key |-> "Last Name", value |-> <<"T", "E", "S", "T">>] >>

\* a code inside the value of the preceding field cuts that value, and two
\* adjacent codes give an empty value
C5_Witness ==
    /\ ppc = "returned"
    /\ main_data_content = <<"D", "C", "S", "1", "D", "A", "Q", "D", "A", "D">>
    /\ parsed_data = << [key |-> "Last Name", value |-> <<"1">>],
                        [key |-> "License No.", value |-> <<>>],
                        [key |-> "Middle Name", value |-> <<>>] >>

\* C6 as stated: the structural error is returned exactly when no segment
\* holding DL or ID holds a Z.
C6_StructuralIffNoZ ==
    ppc = "returned" =>
       (parsed_data = StructuralError <=>
           ~\E a \in SegmentStarts : HasMarker(a) /\ HasZ(a))

\* C6 amended: the structural error is returned exactly when no segment
\* holding DL or ID has its first Z followed by at least one character;
\* otherwise the region is the text after the first Z of the first such
\* segment, and the extraction-empty error is returned exactly when no known
\* code occurs in it; both errors are distinct and are the whole result.
C6_ErrorsAmended ==
    /\ StructuralError # ExtractionEmptyError
    /\ ppc = "returned" =>
          /\ parsed_data = StructuralError <=> UsableStarts = {}
          /\ UsableStarts # {} =>
                /\ main_data_content = ExpectedRegion
                /\ parsed_data = ExtractionEmptyError <=> Occurrences(ExpectedRegion) = {}
          /\ (UsableStarts = {} \/ Occurrences(main_data_content) = {}) =>
                /\ IsError
                /\ field_positions = <<>>

\* a DL segment that ends with its Z is passed over and the next one is used
C6_Witness ==
    /\ ppc = "returned"
    /\ parsed_data = ExtractionEmptyError
    /\ \E a \in SegmentStarts : HasMarker(a) /\ HasZ(a) /\ a \notin UsableStarts

Overlaps(k) ==
    /\ k < Len(field_positions)
    /\ field_positions[k + 1].start_pos
          < field_positions[k].start_pos + Len(field_positions[k].code)

\* C10: a successful result has one entry per distinct code occurring in the
\* region; the entry of a code holds the value after its last occurrence;
\* an occurrence whose successor starts inside its code gets the empty value.
C10_OneEntryPerCodeLastWins ==
    /\ ppc = "returned" /\ ~IsError =>
          /\ Len(parsed_data) = Cardinality({o[1] : o \in Occurrences(main_data_content)})
          /\ \A j, k \in 1..Len(parsed_data) :
                parsed_data[j].key = parsed_data[k].key => j = k
          /\ \A o \in Occurrences(main_data_content) :
                (\A x \in Occurrences(main_data_content) : x[1] = o[1] => x[2] <= o[2])
                   => EntryOf(o[1]) = {ExpectedValue(main_data_content, o[1], o[2])}
    /\ ppc = "extract" /\ idx >= 1 /\ Overlaps(idx) =>
          EntryOf(field_positions[idx].code) = {<<>>}

C10_Witness ==
    /\ ppc = "returned" /\ ~IsError
    /\ \E k \in 1..(Len(field_positions) - 1) :
          /\ field_positions[k].code = field_positions[k + 1].code
          /\ Overlaps(k)
    /\ \E j, k \in 1..Len(field_positions) :
          /\ j < k /\ field_positions[j].code = field_positions[k].code
          /\ ExpectedValue(main_data_content, field_positions[j].code,
                           field_positions[j].start_pos) # <<>>

(***************************************************************************)
(* Properties of the parameter table                                       *)
(***************************************************************************)
\* ceil(byte_len / 1.8) + 64: the least n with 1.8 * n >= byte_len, plus 64
ExpectedTotal(len) == Min({n \in 0..len : 18 * n >= 10 * len}) + 64

\* ceil(T / c): the least r with r * c >= T
ExpectedRows(T, c) == Min({r \in 0..T : r * c >= T})

\* C7: an empty table for byte_len <= 0; otherwise, in ascending column
\* order, one row for each c in 9..20 with 3 <= ceil(T / c) <= 90 and no
\* other row, T = ceil(byte_len / 1.8) + 64; byte_len = 223 gives T = 188
\* and the row c = 17, rows = 12.
C7_FeasibleRowsExactly ==
    /\ kpc = "returned" /\ byte_len <= 0 => data = <<>>
    /\ kpc = "returned" /\ byte_len > 0 =>
          LET T == ExpectedTotal(byte_len)
          IN  /\ total_cw = T
              /\ \A k \in 1..(Len(data) - 1) : data[k].cols < data[k + 1].cols
              /\ {data[k].cols : k \in 1..Len(data)} =
                    {c \in 9..20 : 3 <= ExpectedRows(T, c) /\ ExpectedRows(T, c) <= 90}
              /\ \A k \in 1..Len(data) : data[k].rows = ExpectedRows(T, data[k].cols)
    /\ kpc = "returned" /\ byte_len = 223 =>
          /\ total_cw = 188
          /\ \E k \in 1..Len(data) : data[k].cols = 17 /\ data[k].rows = 12

C7_Witness ==
    /\ kpc = "returned" /\ byte_len = 223
    /\ Len(data) = 12
    /\ \E k \in 1..Len(data) : data[k].cols = 17 /\ data[k].rows = 12

\* C8 as stated, its column part: c = 17 is annotated "standard", c in 16..18
\* "common wide", c in 11..13 "narrow".
C8_ColumnNotesWithCommonWide ==
    \A k \in 1..Len(data) :
       /\ data[k].cols = 17 => "AAMVA standard" \in Range(data[k].note)
       /\ data[k].cols \in 16..18 => "common wide" \in Range(data[k].note)
       /\ data[k].cols \in 11..13 => "narrow (NY/CA style)" \in Range(data[k].note)

\* C8 amended: c = 17 is annotated "standard", c in 11..13 "narrow", every
\* other c (16 and 18 included) has no column note; ratio = ((c + 4) * 17) /
\* (rows * 3) in [3, 5] is annotated "perfect ratio", > 6 "elongated",
\* < 2.5 "square", any other ratio has no ratio note.
C8_NotesAmended ==
    \A k \in 1..Len(data) :
       LET c == data[k].cols
           w == (c + 4) * 17
           h == data[k].rows * 3
           colPart == IF c = 17 THEN <<"AAMVA standard">>
                      ELSE IF c \in 11..13 THEN <<"narrow (NY/CA style)">>
                      ELSE <<>>
           ratioPart == IF 3 * h <= w /\ w <= 5 * h THEN <<"| perfect ratio">>
                        ELSE IF w > 6 * h THEN <<"| elongated barcode">>
                        ELSE IF 2 * w < 5 * h THEN <<"| square barcode">>
                        ELSE <<>>
       IN  data[k].note = colPart \o ratioPart

C8_Witness ==
    /\ kpc = "returned"
    /\ \E j, k, m \in 1..Len(data) :
          /\ data[j].cols = 16 /\ data[j].note = <<"| perfect ratio">>
          /\ data[k].cols = 17 /\ data[k].note = <<"AAMVA standard", "| perfect ratio">>
          /\ data[m].cols = 12 /\ data[m].note = <<"narrow (NY/CA style)">>

====
